---- MODULE Spec2Model ----
(***************************************************************************)
(* Model of the Extractor API gateway (extractor/main.py): a FastAPI app   *)
(* with GET /schema, GET / and POST /extract.  POST /extract validates the *)
(* JSON body against ExtractionRequest, translates the examples to the     *)
(* engine's classes, calls the engine once, and serialises the engine's    *)
(* result, or turns any exception into an HTTP 500.                        *)
(***************************************************************************)
EXTENDS Integers, Sequences, FiniteSets, TLC

(***************************************************************************)
(* Bounds of the model.                                                    *)
(***************************************************************************)
NumRequests == 2
MaxExamples == 2
MaxExtractions == 2

(***************************************************************************)
(* Python / JSON values, tagged by type.  A mapping or an object's         *)
(* attribute table is a function from names to values; a name outside its  *)
(* DOMAIN is an absent key or attribute.                                   *)
(***************************************************************************)
None == [t |-> "none"]
PyStr(s) == [t |-> "str", v |-> s]
PyInt(n) == [t |-> "int", v |-> n]
PyBool(b) == [t |-> "bool", v |-> b]
PyList(q) == [t |-> "list", v |-> q]
PyDict(f) == [t |-> "dict", v |-> f]
PyObj(c, f) == [t |-> "obj", cls |-> c, v |-> f]
EmptyMap == [k \in {} |-> None]

Ok(x) == [ok |-> TRUE, val |-> x]
Raise(m) == [ok |-> FALSE, err |-> m]

Without(f, k) == [j \in (DOMAIN f) \ {k} |-> f[j]]
With(f, k, x) == [j \in (DOMAIN f) \cup {k} |-> IF j = k THEN x ELSE f[j]]

TypeName(o) == IF o.t = "obj" THEN o.cls ELSE IF o.t = "none" THEN "NoneType" ELSE o.t

\* hasattr(o, k)
HasAttr(o, k) == o.t = "obj" /\ k \in DOMAIN o.v

\* str(e) of the AttributeError raised by o.k when o has no attribute k
AttributeError(o, k) == "'" \o TypeName(o) \o "' object has no attribute '" \o k \o "'"

\* bool(x)
Truthy(x) ==
    CASE x.t = "none" -> FALSE
      [] x.t = "bool" -> x.v
      [] x.t = "int" -> x.v # 0
      [] x.t = "str" -> x.v # ""
      [] x.t = "list" -> x.v # <<>>
      [] x.t = "dict" -> DOMAIN x.v # {}
      [] OTHER -> TRUE

(***************************************************************************)
(* Request validation: the pydantic models Extraction, Example and         *)
(* ExtractionRequest.  Each function gives the set of <<location, kind>>    *)
(* errors of a JSON value against the model, as pydantic collects them.    *)
(***************************************************************************)
StrField(obj, k, loc) ==
    IF k \notin DOMAIN obj THEN {<<Append(loc, k), "missing">>}
    ELSE IF obj[k].t # "str" THEN {<<Append(loc, k), "string_type">>}
    ELSE {}

\* Faulty variant: attributes declared Any, so its type goes unvalidated
ExtractionErrorsAnyAttributes(x, loc) ==
    IF x.t # "dict" THEN {<<loc, "model_attributes_type">>}
    ELSE StrField(x.v, "extraction_class", loc)
         \cup StrField(x.v, "extraction_text", loc)

ExtractionErrors(x, loc) ==
    IF x.t # "dict" THEN {<<loc, "model_attributes_type">>}
    ELSE StrField(x.v, "extraction_class", loc)
         \cup StrField(x.v, "extraction_text", loc)
         \cup (IF "attributes" \in DOMAIN x.v /\ x.v["attributes"].t # "dict"
               THEN {<<Append(loc, "attributes"), "dict_type">>}
               ELSE {})

ExampleErrors(x, loc) ==
    IF x.t # "dict" THEN {<<loc, "model_attributes_type">>}
    ELSE StrField(x.v, "text", loc)
         \cup (IF "extractions" \notin DOMAIN x.v
               THEN {<<Append(loc, "extractions"), "missing">>}
               ELSE IF x.v["extractions"].t # "list"
               THEN {<<Append(loc, "extractions"), "list_type">>}
               ELSE UNION {ExtractionErrors(x.v["extractions"].v[j],
                                            Append(Append(loc, "extractions"), ToString(j)))
                           : j \in DOMAIN x.v["extractions"].v})

ExtractionRequestErrors(x) ==
    LET loc == <<"body">> IN
    IF x.t # "dict" THEN {<<loc, "model_attributes_type">>}
    ELSE StrField(x.v, "prompt_description", loc)
         \cup (IF "examples" \notin DOMAIN x.v
               THEN {<<Append(loc, "examples"), "missing">>}
               ELSE IF x.v["examples"].t # "list"
               THEN {<<Append(loc, "examples"), "list_type">>}
               ELSE UNION {ExampleErrors(x.v["examples"].v[i],
                                         Append(Append(loc, "examples"), ToString(i)))
                           : i \in DOMAIN x.v["examples"].v})
         \cup StrField(x.v, "text_or_documents", loc)
         \cup StrField(x.v, "model_id", loc)

(***************************************************************************)
(* The validated models built from a body without errors: declared fields  *)
(* only, the omitted attributes field filled by default_factory=dict.      *)
(***************************************************************************)
Extraction(x) ==
    PyObj("Extraction",
          [extraction_class |-> x.v["extraction_class"],
           extraction_text |-> x.v["extraction_text"],
           attributes |-> IF "attributes" \in DOMAIN x.v
                          THEN x.v["attributes"] ELSE PyDict(EmptyMap)])

Example(x) ==
    PyObj("Example",
          [text |-> x.v["text"],
           extractions |-> PyList([j \in DOMAIN x.v["extractions"].v
                                   |-> Extraction(x.v["extractions"].v[j])])])

ExtractionRequest(x) ==
    PyObj("ExtractionRequest",
          [prompt_description |-> x.v["prompt_description"],
           examples |-> PyList([i \in DOMAIN x.v["examples"].v
                                |-> Example(x.v["examples"].v[i])]),
           text_or_documents |-> x.v["text_or_documents"],
           model_id |-> x.v["model_id"]])

(***************************************************************************)
(* extract(), first part: the examples in the engine's classes, and the    *)
(* arguments of the one engine call.  lx.data.Extraction and               *)
(* lx.data.ExampleData are data classes: constructing one stores the        *)
(* keyword arguments it is given, here values already validated.           *)
(***************************************************************************)
\* Faulty variant: the attributes argument forgotten in the translation
LxExtractionNoAttributes(extraction) ==
    PyObj("lx.data.Extraction",
          [extraction_class |-> extraction.v.extraction_class,
           extraction_text |-> extraction.v.extraction_text,
           attributes |-> None])

LxExtraction(extraction) ==
    PyObj("lx.data.Extraction",
          [extraction_class |-> extraction.v.extraction_class,
           extraction_text |-> extraction.v.extraction_text,
           attributes |-> extraction.v.attributes])

LxExampleData(example) ==
    PyObj("lx.data.ExampleData",
          [text |-> example.v.text,
           extractions |-> PyList([j \in DOMAIN example.v.extractions.v
                                   |-> LxExtraction(example.v.extractions.v[j])])])

TranslateExamples(data) ==
    [i \in DOMAIN data.v.examples.v |-> LxExampleData(data.v.examples.v[i])]

EngineArgs(data) ==
    [text_or_documents |-> data.v.text_or_documents,
     prompt_description |-> data.v.prompt_description,
     examples |-> TranslateExamples(data),
     model_id |-> data.v.model_id]

(***************************************************************************)
(* extract(), second part: the engine's result as result_dict.  Every      *)
(* operator gives Ok(value) or Raise(str(e)) of the exception the Python    *)
(* expression raises; the first exception ends the evaluation.             *)
(***************************************************************************)
OptionalAttr(o, k) == IF HasAttr(o, k) THEN o.v[k] ELSE None

RequiredAttrs == <<"extraction_class", "extraction_text", "attributes">>

\* The first of the attributes names, in evaluation order, that o lacks (0: none)
FirstMissing(o, names) ==
    IF \E i \in DOMAIN names : ~HasAttr(o, names[i])
    THEN CHOOSE i \in DOMAIN names :
            /\ ~HasAttr(o, names[i])
            /\ \A j \in DOMAIN names : j < i => HasAttr(o, names[j])
    ELSE 0

\* Faulty variant: the two bounds of the interval exchanged
CharIntervalSwapped(ext) ==
    IF HasAttr(ext, "char_interval") /\ Truthy(ext.v["char_interval"])
    THEN LET ci == ext.v["char_interval"]
             m == FirstMissing(ci, <<"start_pos", "end_pos">>)
         IN IF m # 0
            THEN Raise(AttributeError(ci, <<"start_pos", "end_pos">>[m]))
            ELSE Ok(PyDict([start_pos |-> ci.v["end_pos"],
                            end_pos |-> ci.v["start_pos"]]))
    ELSE Ok(None)

CharInterval(ext) ==
    IF HasAttr(ext, "char_interval") /\ Truthy(ext.v["char_interval"])
    THEN LET ci == ext.v["char_interval"]
             m == FirstMissing(ci, <<"start_pos", "end_pos">>)
         IN IF m # 0
            THEN Raise(AttributeError(ci, <<"start_pos", "end_pos">>[m]))
            ELSE Ok(PyDict([start_pos |-> ci.v["start_pos"],
                            end_pos |-> ci.v["end_pos"]]))
    ELSE Ok(None)

\* Faulty variant: description read without the hasattr probe
SerializeExtractionUnprobed(ext) ==
    LET names == RequiredAttrs \o <<"description">>
        m == FirstMissing(ext, names)
    IN IF m # 0 THEN Raise(AttributeError(ext, names[m]))
       ELSE LET ci == CharInterval(ext) IN
            IF ~ci.ok THEN ci
            ELSE Ok(PyDict([extraction_class |-> ext.v["extraction_class"],
                            extraction_text |-> ext.v["extraction_text"],
                            attributes |-> ext.v["attributes"],
                            char_interval |-> ci.val,
                            alignment_status |-> OptionalAttr(ext, "alignment_status"),
                            extraction_index |-> OptionalAttr(ext, "extraction_index"),
                            group_index |-> OptionalAttr(ext, "group_index"),
                            description |-> ext.v["description"]]))

SerializeExtraction(ext) ==
    LET m == FirstMissing(ext, RequiredAttrs) IN
    IF m # 0 THEN Raise(AttributeError(ext, RequiredAttrs[m]))
    ELSE LET ci == CharInterval(ext) IN
         IF ~ci.ok THEN ci
         ELSE Ok(PyDict([extraction_class |-> ext.v["extraction_class"],
                         extraction_text |-> ext.v["extraction_text"],
                         attributes |-> ext.v["attributes"],
                         char_interval |-> ci.val,
                         alignment_status |-> OptionalAttr(ext, "alignment_status"),
                         extraction_index |-> OptionalAttr(ext, "extraction_index"),
                         group_index |-> OptionalAttr(ext, "group_index"),
                         description |-> OptionalAttr(ext, "description")]))

\* Faulty variant: an extraction that cannot be serialised is skipped
RECURSIVE SerializeExtractionsSkipping(_, _)
SerializeExtractionsSkipping(exts, acc) ==
    IF exts = <<>> THEN Ok(PyList(acc))
    ELSE LET r == SerializeExtraction(Head(exts)) IN
         IF r.ok THEN SerializeExtractionsSkipping(Tail(exts), Append(acc, r.val))
         ELSE SerializeExtractionsSkipping(Tail(exts), acc)

\* The list comprehension over result.extractions: records are collected in
\* order, and an exception on any element abandons the whole list.
RECURSIVE SerializeExtractions(_, _)
SerializeExtractions(exts, acc) ==
    IF exts = <<>> THEN Ok(PyList(acc))
    ELSE LET r == SerializeExtraction(Head(exts)) IN
         IF r.ok THEN SerializeExtractions(Tail(exts), Append(acc, r.val))
         ELSE r

SerializeResult(result) ==
    IF ~HasAttr(result, "text") THEN Raise(AttributeError(result, "text"))
    ELSE IF ~HasAttr(result, "extractions")
    THEN Raise(AttributeError(result, "extractions"))
    ELSE IF result.v["extractions"].t # "list"
    THEN Raise("'" \o TypeName(result.v["extractions"]) \o "' object is not iterable")
    ELSE LET exts == SerializeExtractions(result.v["extractions"].v, <<>>) IN
         IF ~exts.ok THEN exts
         ELSE Ok(PyDict([text |-> result.v["text"],
                         document_id |-> OptionalAttr(result, "document_id"),
                         extractions |-> exts.val]))

(***************************************************************************)
(* HTTP responses: a status and a JSON body.                               *)
(***************************************************************************)
ExtractionResponse(success, result, message) ==
    [status |-> 200,
     body |-> PyDict([success |-> PyBool(success), result |-> result,
                      message |-> message])]

HTTPException(status_code, detail) ==
    [status |-> status_code, body |-> PyDict([detail |-> detail])]

RequestValidationError(errors) ==
    [status |-> 422, body |-> PyDict([detail |-> errors])]

\* What extract() answers once the engine call has returned or raised.
ExtractResponse(outcome) ==
    LET r == IF outcome.kind = "raised" THEN Raise(outcome.err)
             ELSE SerializeResult(outcome.value)
    IN IF r.ok
       THEN ExtractionResponse(TRUE, r.val, PyStr("Extraction completed successfully"))
       ELSE HTTPException(500, PyStr("Extraction failed: " \o r.err))

SchemaResponse ==
    [status |-> 200,
     body |-> PyDict([title |-> PyStr("ExtractionRequest"),
                      type |-> PyStr("object"),
                      required |-> PyList(<<PyStr("prompt_description"), PyStr("examples"),
                                            PyStr("text_or_documents"), PyStr("model_id")>>)])]

RootResponse ==
    [status |-> 200,
     body |-> PyDict([name |-> PyStr("Extractor API"),
                      version |-> PyStr("0.1.0"),
                      endpoints |-> PyDict([schema |-> PyStr("/schema"),
                                            openapi |-> PyStr("/openapi.json"),
                                            docs |-> PyStr("/docs"),
                                            extract |-> PyStr("/extract (POST)")])])]

(***************************************************************************)
(* Inputs: request bodies and engine outcomes, drawn from bounded sets.    *)
(***************************************************************************)
RECURSIVE SeqsUpTo(_, _)
SeqsUpTo(S, n) ==
    IF n = 0 THEN {<<>>}
    ELSE LET shorter == SeqsUpTo(S, n - 1)
         IN shorter \cup {Append(q, x) : q \in shorter, x \in S}

SeqsOfLen(S, n) == {q \in SeqsUpTo(S, n) : Len(q) = n}

\* Well-formed JSON extractions: attributes given, attributes omitted
JsonExtractions ==
    {PyDict([extraction_class |-> PyStr("date"), extraction_text |-> PyStr("5.5."),
             attributes |-> PyDict([kind |-> PyStr("day")])]),
     PyDict([extraction_class |-> PyStr("place"), extraction_text |-> PyStr("Berlin")])}

JsonExample(exts) == PyDict([text |-> PyStr("Meet on 5.5."), extractions |-> PyList(exts)])

JsonBody(examples) ==
    PyDict([prompt_description |-> PyStr("Extract dates"),
            examples |-> PyList(examples),
            text_or_documents |-> PyStr("See you 6.6."),
            model_id |-> PyStr("test-model")])

\* One field of a JSON object dropped, or given a value of another type
Faults(obj, fields) ==
    {PyDict(Without(obj.v, k)) : k \in fields}
    \cup {PyDict(With(obj.v, k, PyInt(7))) : k \in fields}

Replace(q, i, x) == [q EXCEPT ![i] = x]

\* The faults of one extraction: a required field dropped or mistyped,
\* attributes not a mapping, the extraction not an object
FaultyExtractions ==
    LET e == PyDict([extraction_class |-> PyStr("date"), extraction_text |-> PyStr("5.5."),
                     attributes |-> PyDict(EmptyMap)])
    IN Faults(e, {"extraction_class", "extraction_text"})
       \cup {PyDict(With(e.v, "attributes", PyList(<<>>))), PyStr("date")}

GoodExtraction ==
    PyDict([extraction_class |-> PyStr("place"), extraction_text |-> PyStr("Berlin")])

\* Examples with one fault: in the example itself, or in one of its extractions
FaultyExamples ==
    Faults(JsonExample(<<GoodExtraction>>), {"text", "extractions"})
    \cup {PyStr("Meet on 5.5.")}
    \cup {JsonExample(Replace([k \in 1..MaxExtractions |-> GoodExtraction], j, e))
          : j \in 1..MaxExtractions, e \in FaultyExtractions}

\* Bodies with exactly one fault, at any depth and position
FaultyBodies ==
    Faults(JsonBody(<<JsonExample(<<GoodExtraction>>)>>),
           {"prompt_description", "examples", "text_or_documents", "model_id"})
    \cup {PyList(<<>>)}
    \cup {JsonBody(Replace([k \in 1..MaxExamples |-> JsonExample(<<GoodExtraction>>)], i, ex))
          : i \in 1..MaxExamples, ex \in FaultyExamples}

WellFormedBodies ==
    {JsonBody(exs) : exs \in SeqsUpTo({JsonExample(es)
                                       : es \in SeqsUpTo(JsonExtractions, MaxExtractions)},
                                      MaxExamples)}

ScenarioBody ==
    JsonBody(<<JsonExample(<<PyDict([extraction_class |-> PyStr("date"),
                                     extraction_text |-> PyStr("5.5."),
                                     attributes |-> PyDict(EmptyMap)])>>)>>)

OtherBody ==
    PyDict([prompt_description |-> PyStr("Extract places"),
            examples |-> PyList(<<>>),
            text_or_documents |-> PyStr("Berlin, 7.7."),
            model_id |-> PyStr("other-model")])

PostExtract(body) == [route |-> "POST /extract", body |-> body]
GetSchemaRequest == [route |-> "GET /schema", body |-> None]
GetRootRequest == [route |-> "GET /", body |-> None]

(***************************************************************************)
(* Engine results.  The engine is an opaque collaborator: an extraction    *)
(* object carries the three core attributes and any subset of the optional *)
(* ones; a result carries text, extractions and maybe document_id.         *)
(***************************************************************************)
OptionalFields ==
    {"char_interval", "alignment_status", "extraction_index", "group_index", "description"}

EngineCharInterval ==
    PyObj("CharInterval", [start_pos |-> PyInt(8), end_pos |-> PyInt(12)])

OptionalValue(k) ==
    CASE k = "char_interval" -> EngineCharInterval
      [] k = "alignment_status" -> PyStr("match_exact")
      [] k = "extraction_index" -> PyInt(1)
      [] k = "group_index" -> PyInt(0)
      [] k = "description" -> PyStr("a date")

CoreAttrs ==
    [extraction_class |-> PyStr("date"), extraction_text |-> PyStr("6.6."),
     attributes |-> PyDict(EmptyMap)]

EngineExtraction(present) ==
    PyObj("Extraction",
          [k \in DOMAIN CoreAttrs \cup present
           |-> IF k \in DOMAIN CoreAttrs THEN CoreAttrs[k] ELSE OptionalValue(k)])

\* Extraction objects within the engine's contract
ContractExtractions ==
    {EngineExtraction(S) : S \in SUBSET OptionalFields}
    \cup {PyObj("Extraction", With(EngineExtraction({}).v, "char_interval", None)),
          PyObj("Extraction",
                [extraction_class |-> PyStr("place"), extraction_text |-> PyStr("Berlin"),
                 attributes |-> PyDict([country |-> PyStr("DE")])])}

\* Extraction objects outside it: a core attribute or an interval bound is absent
MalformedExtractions ==
    {PyObj("Extraction", Without(EngineExtraction({}).v, k)) : k \in DOMAIN CoreAttrs}
    \cup {PyObj("Extraction",
                With(EngineExtraction({}).v, "char_interval",
                     PyObj("CharInterval", [start_pos |-> PyInt(8)])))}

AnnotatedDocument(exts, withId) ==
    PyObj("AnnotatedDocument",
          IF withId
          THEN [text |-> PyStr("See you 6.6."), extractions |-> exts,
                document_id |-> PyStr("doc_1")]
          ELSE [text |-> PyStr("See you 6.6."), extractions |-> exts])

ContractResults ==
    {AnnotatedDocument(PyList(q), b)
     : q \in SeqsUpTo(ContractExtractions, MaxExtractions), b \in BOOLEAN}

\* Results with one malformed extraction at some position among contract ones
PartlyMalformedResults ==
    {AnnotatedDocument(PyList(Replace(q, i, m)), FALSE)
     : q \in SeqsOfLen({EngineExtraction({}), EngineExtraction(OptionalFields)},
                       MaxExtractions),
       i \in 1..MaxExtractions, m \in MalformedExtractions}

MalformedResults ==
    {None,
     AnnotatedDocument(None, FALSE),
     PyObj("AnnotatedDocument", [extractions |-> PyList(<<>>)]),
     PyObj("AnnotatedDocument", [text |-> PyStr("See you 6.6.")])}
    \cup PartlyMalformedResults

ScenarioResult == AnnotatedDocument(PyList(<<EngineExtraction({})>>), FALSE)

EngineErrors == {"model unavailable", "Connection reset by peer"}

(***************************************************************************)
(* State: the requests in flight.  The handlers keep nothing else: the     *)
(* only module-level state is the process environment read at import.      *)
(***************************************************************************)
VARIABLES
    environ,    \* the process environment after load_dotenv()
    pc,         \* where each request is in its handling
    req,        \* the request as received
    data,       \* the validated ExtractionRequest handed to extract()
    calls,      \* the engine calls made for each request, in order
    outcome,    \* what the engine call returned or raised
    sent        \* the responses sent for each request, in order

vars == <<environ, pc, req, data, calls, outcome, sent>>

Requests == 1..NumRequests

NoRequest == [route |-> "none", body |-> None]
NoOutcome == [kind |-> "pending"]
Returned(x) == [kind |-> "returned", value |-> x]
Raised(m) == [kind |-> "raised", err |-> m]

Init ==
    /\ environ = [LANGEXTRACT_API_KEY |-> "from .env"]
    /\ pc = [r \in Requests |-> "idle"]
    /\ req = [r \in Requests |-> NoRequest]
    /\ data = [r \in Requests |-> None]
    /\ calls = [r \in Requests |-> <<>>]
    /\ outcome = [r \in Requests |-> NoOutcome]
    /\ sent = [r \in Requests |-> <<>>]

\* One of the requests reaches the server
Receive(r, requests) ==
    /\ pc[r] = "idle"
    /\ \E q \in requests : req' = [req EXCEPT ![r] = q]
    /\ pc' = [pc EXCEPT ![r] = "received"]
    /\ UNCHANGED <<environ, data, calls, outcome, sent>>

\* The body is validated against ExtractionRequest before extract() is entered;
\* a body with errors is answered 422 and the handler is not run.
Validate(r) ==
    /\ pc[r] = "received"
    /\ req[r].route = "POST /extract"
    /\ LET errors == ExtractionRequestErrors(req[r].body) IN
       IF errors # {}
       THEN /\ sent' = [sent EXCEPT ![r] = Append(@, RequestValidationError(errors))]
            /\ pc' = [pc EXCEPT ![r] = "done"]
            /\ data' = data
       ELSE /\ data' = [data EXCEPT ![r] = ExtractionRequest(req[r].body)]
            /\ pc' = [pc EXCEPT ![r] = "validated"]
            /\ sent' = sent
    /\ UNCHANGED <<environ, req, calls, outcome>>

\* extract() up to the engine call: translate the examples, call lx.extract
ExtractCall(r) ==
    /\ pc[r] = "validated"
    /\ calls' = [calls EXCEPT ![r] = Append(@, EngineArgs(data[r]))]
    /\ pc' = [pc EXCEPT ![r] = "calling"]
    /\ UNCHANGED <<environ, req, data, outcome, sent>>

\* The engine call returns one of the results
EngineReturns(r, results) ==
    /\ pc[r] = "calling"
    /\ \E x \in results : outcome' = [outcome EXCEPT ![r] = Returned(x)]
    /\ pc' = [pc EXCEPT ![r] = "resumed"]
    /\ UNCHANGED <<environ, req, data, calls, sent>>

\* The engine call raises an exception whose str() is one of the errors
EngineRaises(r, errors) ==
    /\ pc[r] = "calling"
    /\ \E m \in errors : outcome' = [outcome EXCEPT ![r] = Raised(m)]
    /\ pc' = [pc EXCEPT ![r] = "resumed"]
    /\ UNCHANGED <<environ, req, data, calls, sent>>

\* Faulty variant: the answer is built from a module-level result that any
\* request's engine call overwrites
ExtractRespondShared(r) ==
    /\ pc[r] = "resumed"
    /\ \E other \in Requests :
          /\ outcome[other] # NoOutcome
          /\ sent' = [sent EXCEPT ![r] = Append(@, ExtractResponse(outcome[other]))]
    /\ pc' = [pc EXCEPT ![r] = "done"]
    /\ UNCHANGED <<environ, req, data, calls, outcome>>

\* Faulty variant: a deadline answers the request while the engine call runs
ExtractRespondDeadline(r) ==
    /\ pc[r] \in {"calling", "resumed"}
    /\ sent' = [sent EXCEPT ![r] =
                   Append(@, IF pc[r] = "calling"
                             THEN HTTPException(500, PyStr("Extraction failed: timed out"))
                             ELSE ExtractResponse(outcome[r]))]
    /\ pc' = [pc EXCEPT ![r] = "done"]
    /\ UNCHANGED <<environ, req, data, calls, outcome>>

\* Faulty variant: an engine call that raised is tried once more
ExtractRespondRetry(r) ==
    /\ pc[r] = "resumed"
    /\ IF outcome[r].kind = "raised" /\ Len(calls[r]) < 2
       THEN /\ calls' = [calls EXCEPT ![r] = Append(@, EngineArgs(data[r]))]
            /\ pc' = [pc EXCEPT ![r] = "calling"]
            /\ sent' = sent
       ELSE /\ sent' = [sent EXCEPT ![r] = Append(@, ExtractResponse(outcome[r]))]
            /\ pc' = [pc EXCEPT ![r] = "done"]
            /\ calls' = calls
    /\ UNCHANGED <<environ, req, data, outcome>>

\* extract() after the engine call: serialise and answer, or answer 500
ExtractRespond(r) ==
    /\ pc[r] = "resumed"
    /\ sent' = [sent EXCEPT ![r] = Append(@, ExtractResponse(outcome[r]))]
    /\ pc' = [pc EXCEPT ![r] = "done"]
    /\ UNCHANGED <<environ, req, data, calls, outcome>>

GetSchema(r) ==
    /\ pc[r] = "received"
    /\ req[r].route = "GET /schema"
    /\ sent' = [sent EXCEPT ![r] = Append(@, SchemaResponse)]
    /\ pc' = [pc EXCEPT ![r] = "done"]
    /\ UNCHANGED <<environ, req, data, calls, outcome>>

Root(r) ==
    /\ pc[r] = "received"
    /\ req[r].route = "GET /"
    /\ sent' = [sent EXCEPT ![r] = Append(@, RootResponse)]
    /\ pc' = [pc EXCEPT ![r] = "done"]
    /\ UNCHANGED <<environ, req, data, calls, outcome>>

(***************************************************************************)
(* Spec: several requests in flight, interleaved at their suspension       *)
(* points, over a few bodies and engine outcomes.                          *)
(***************************************************************************)
SomeRequests ==
    {PostExtract(ScenarioBody), PostExtract(OtherBody),
     PostExtract(PyDict(Without(ScenarioBody.v, "model_id"))),
     GetSchemaRequest, GetRootRequest}

SomeResults ==
    {ScenarioResult,
     AnnotatedDocument(PyList(<<EngineExtraction(OptionalFields)>>), TRUE),
     PyObj("AnnotatedDocument", [extractions |-> PyList(<<>>)])}

Next ==
    \E r \in Requests :
        \/ Receive(r, SomeRequests)
        \/ Validate(r)
        \/ ExtractCall(r)
        \/ EngineReturns(r, SomeResults)
        \/ EngineRaises(r, {"model unavailable"})
        \/ ExtractRespond(r)
        \/ GetSchema(r)
        \/ Root(r)

Spec == Init /\ [][Next]_vars

(***************************************************************************)
(* SpecValidate: one request, every well-formed body within the bounds and *)
(* every body with one fault.                                              *)
(***************************************************************************)
NextValidate ==
    \/ Receive(1, {PostExtract(b) : b \in WellFormedBodies \cup FaultyBodies})
    \/ Validate(1)
    \/ ExtractCall(1)
    \/ EngineReturns(1, {ScenarioResult})
    \/ ExtractRespond(1)

SpecValidate == Init /\ [][NextValidate]_vars

(***************************************************************************)
(* SpecNorm: one request, every engine result within the bounds.           *)
(***************************************************************************)
NextNorm ==
    \/ Receive(1, {PostExtract(ScenarioBody)})
    \/ Validate(1)
    \/ ExtractCall(1)
    \/ EngineReturns(1, ContractResults \cup MalformedResults)
    \/ EngineRaises(1, EngineErrors)
    \/ ExtractRespond(1)

SpecNorm == Init /\ [][NextNorm]_vars

(***************************************************************************)
(* SpecLive: Spec with the fairness the code gives: once lx.extract has    *)
(* returned or raised, extract() runs on to its response without           *)
(* suspending.  Nothing obliges the engine call itself to complete.        *)
(***************************************************************************)
SpecLive == Spec /\ \A r \in Requests : WF_vars(ExtractRespond(r))

(***************************************************************************)
(* Claims.                                                                 *)
(***************************************************************************)
IsPost(r) == req[r].route = "POST /extract"
Answered(r) == pc[r] = "done"
Response(r) == sent[r][1]

\* A JSON value of the shape the request schema asks for, stated field by field
ConformsExtraction(e) ==
    /\ e.t = "dict"
    /\ \A k \in {"extraction_class", "extraction_text"} : k \in DOMAIN e.v /\ e.v[k].t = "str"
    /\ "attributes" \in DOMAIN e.v => e.v["attributes"].t = "dict"

ConformsExample(ex) ==
    /\ ex.t = "dict"
    /\ "text" \in DOMAIN ex.v /\ ex.v["text"].t = "str"
    /\ "extractions" \in DOMAIN ex.v /\ ex.v["extractions"].t = "list"
    /\ \A j \in DOMAIN ex.v["extractions"].v : ConformsExtraction(ex.v["extractions"].v[j])

Conforms(b) ==
    /\ b.t = "dict"
    /\ \A k \in {"prompt_description", "text_or_documents", "model_id"} :
          k \in DOMAIN b.v /\ b.v[k].t = "str"
    /\ "examples" \in DOMAIN b.v /\ b.v["examples"].t = "list"
    /\ \A i \in DOMAIN b.v["examples"].v : ConformsExample(b.v["examples"].v[i])

\* C2: a POST /extract request whose body is malformed (a required field of
\* ExtractionRequest, Example or Extraction missing or mistyped) is never handed
\* to extract(), no engine call is ever made for it, and its only answer is a 422
\* carrying field errors; any engine call belongs to a request whose body conforms.
C2_MalformedNeverReachesEngine ==
    \A r \in Requests :
        (IsPost(r) /\ ~Conforms(req[r].body)) =>
            /\ calls[r] = <<>>
            /\ data[r] = None
            /\ outcome[r] = NoOutcome
            /\ pc[r] \in {"received", "done"}
            /\ Answered(r) =>
                  /\ Len(sent[r]) = 1
                  /\ Response(r).status = 422
                  /\ Response(r).body.v["detail"] # {}

\* C2 witness: a body whose second example's extraction lacks extraction_class has
\* been answered 422 with the engine never called.
C2_Witness ==
    \E r \in Requests :
        /\ IsPost(r) /\ Answered(r) /\ calls[r] = <<>>
        /\ Response(r).status = 422
        /\ req[r].body.t = "dict"
        /\ "examples" \in DOMAIN req[r].body.v
        /\ req[r].body.v["examples"].t = "list"
        /\ \E i \in DOMAIN req[r].body.v["examples"].v :
              LET ex == req[r].body.v["examples"].v[i] IN
              /\ i = 2 /\ ConformsExample(req[r].body.v["examples"].v[1])
              /\ ex.t = "dict" /\ "extractions" \in DOMAIN ex.v /\ ex.v["extractions"].t = "list"
              /\ \E j \in DOMAIN ex.v["extractions"].v :
                    /\ ex.v["extractions"].v[j].t = "dict"
                    /\ "extraction_class" \notin DOMAIN ex.v["extractions"].v[j].v

\* The fields of a JSON extraction as the request states them, an omitted
\* attributes being the empty mapping
StatedAttributes(e) == IF "attributes" \in DOMAIN e.v THEN e.v["attributes"] ELSE PyDict(EmptyMap)

\* Reading an engine-native example list back as validated Example models
BackExtraction(n) ==
    PyObj("Extraction", [extraction_class |-> n.v["extraction_class"],
                         extraction_text |-> n.v["extraction_text"],
                         attributes |-> n.v["attributes"]])

BackExample(n) ==
    PyObj("Example", [text |-> n.v["text"],
                      extractions |-> PyList([j \in DOMAIN n.v["extractions"].v
                                              |-> BackExtraction(n.v["extractions"].v[j])])])

\* C6: the examples of every engine call are the request's examples translated
\* faithfully: as many examples in the same order, each with the same text and as
\* many extractions in the same order, every extraction_class, extraction_text and
\* attributes as the request body states them (omitted attributes arriving as the
\* empty mapping); read back, they are the validated example list.
C6_TranslationPreservesExamples ==
    \A r \in Requests : \A c \in DOMAIN calls[r] :
        LET native == calls[r][c].examples
            stated == req[r].body.v["examples"].v
        IN /\ Len(native) = Len(stated)
           /\ \A i \in DOMAIN stated :
                 /\ native[i].v["text"] = stated[i].v["text"]
                 /\ Len(native[i].v["extractions"].v) = Len(stated[i].v["extractions"].v)
                 /\ \A j \in DOMAIN stated[i].v["extractions"].v :
                       LET n == native[i].v["extractions"].v[j]
                           e == stated[i].v["extractions"].v[j]
                       IN /\ n.v["extraction_class"] = e.v["extraction_class"]
                          /\ n.v["extraction_text"] = e.v["extraction_text"]
                          /\ n.v["attributes"] = StatedAttributes(e)
           /\ [i \in DOMAIN native |-> BackExample(native[i])] = data[r].v["examples"].v

\* C6 witness: the engine was called with two different examples, the first with
\* two different extractions, one stating attributes and one omitting them.
C6_Witness ==
    \E r \in Requests :
        /\ Len(calls[r]) = 1
        /\ LET native == calls[r][1].examples
               stated == req[r].body.v["examples"].v
           IN /\ Len(native) = 2 /\ native[1] # native[2]
              /\ Len(stated[1].v["extractions"].v) = 2
              /\ "attributes" \in DOMAIN stated[1].v["extractions"].v[1].v
              /\ stated[1].v["extractions"].v[1].v["attributes"] # PyDict(EmptyMap)
              /\ "attributes" \notin DOMAIN stated[1].v["extractions"].v[2].v
              /\ native[1].v["extractions"].v[2].v["attributes"] = PyDict(EmptyMap)

\* C3: no request ever has more than one engine call; a validated request that
\* has entered extract() has exactly one, made with its own text_or_documents,
\* prompt_description, model_id and its own examples; a request answered after
\* its engine call raised still has exactly that one call.
C3_EngineCalledExactlyOnce ==
    \A r \in Requests :
        /\ Len(calls[r]) <= 1
        /\ (IsPost(r) /\ pc[r] \in {"calling", "resumed"}) => Len(calls[r]) = 1
        /\ (IsPost(r) /\ Answered(r) /\ Conforms(req[r].body)) => Len(calls[r]) = 1
        /\ \A c \in DOMAIN calls[r] :
              /\ calls[r][c].text_or_documents = req[r].body.v["text_or_documents"]
              /\ calls[r][c].prompt_description = req[r].body.v["prompt_description"]
              /\ calls[r][c].model_id = req[r].body.v["model_id"]
              /\ Len(calls[r][c].examples) = Len(req[r].body.v["examples"].v)

\* C3 witness: two requests with different bodies are both answered, one after
\* its engine call raised, and each has its one call with its own arguments.
C3_Witness ==
    \E r1, r2 \in Requests :
        /\ r1 # r2 /\ Answered(r1) /\ Answered(r2)
        /\ req[r1] = PostExtract(ScenarioBody) /\ req[r2] = PostExtract(OtherBody)
        /\ outcome[r1].kind = "raised" /\ outcome[r2].kind = "returned"
        /\ Len(calls[r1]) = 1 /\ Len(calls[r2]) = 1
        /\ calls[r1][1].model_id = PyStr("test-model")
        /\ calls[r2][1].model_id = PyStr("other-model")

\* An engine result within the collaborator contract: text and a list of
\* extraction objects, each with its three core attributes, any subset of the
\* optional ones, and both bounds on a char_interval that is not None
ExtractionInContract(e) ==
    /\ e.t = "obj"
    /\ {"extraction_class", "extraction_text", "attributes"} \subseteq DOMAIN e.v
    /\ ("char_interval" \in DOMAIN e.v /\ e.v["char_interval"] # None)
          => {"start_pos", "end_pos"} \subseteq DOMAIN e.v["char_interval"].v

ResultInContract(x) ==
    /\ x.t = "obj"
    /\ {"text", "extractions"} \subseteq DOMAIN x.v
    /\ x.v["extractions"].t = "list"
    /\ \A i \in DOMAIN x.v["extractions"].v : ExtractionInContract(x.v["extractions"].v[i])

ReturnedInContract(r) ==
    IsPost(r) /\ Answered(r) /\ outcome[r].kind = "returned" /\ ResultInContract(outcome[r].value)

RecordKeys ==
    {"extraction_class", "extraction_text", "attributes", "char_interval",
     "alignment_status", "extraction_index", "group_index", "description"}

\* C4: whichever optional attributes an engine result within the contract lacks,
\* the request succeeds, result has the keys text, document_id and extractions,
\* every record has all eight keys, and each key whose attribute is absent on the
\* engine's object (document_id on the result included) is null.
C4_NormalizationTotal ==
    \A r \in Requests :
        ReturnedInContract(r) =>
            LET x == outcome[r].value
                b == Response(r).body.v
            IN /\ Response(r).status = 200
               /\ b["success"] = PyBool(TRUE)
               /\ DOMAIN b["result"].v = {"text", "document_id", "extractions"}
               /\ ("document_id" \notin DOMAIN x.v) => b["result"].v["document_id"] = None
               /\ Len(b["result"].v["extractions"].v) = Len(x.v["extractions"].v)
               /\ \A i \in DOMAIN x.v["extractions"].v :
                     LET rec == b["result"].v["extractions"].v[i].v IN
                     /\ DOMAIN rec = RecordKeys
                     /\ \A k \in OptionalFields :
                           k \notin DOMAIN x.v["extractions"].v[i].v => rec[k] = None

\* C4 witness: a result without document_id whose first extraction has none of
\* the optional attributes and whose second has only description was answered.
C4_Witness ==
    \E r \in Requests :
        /\ ReturnedInContract(r)
        /\ "document_id" \notin DOMAIN outcome[r].value.v
        /\ Len(outcome[r].value.v["extractions"].v) = 2
        /\ DOMAIN outcome[r].value.v["extractions"].v[1].v
              = {"extraction_class", "extraction_text", "attributes"}
        /\ DOMAIN outcome[r].value.v["extractions"].v[2].v
              = {"extraction_class", "extraction_text", "attributes", "description"}
        /\ Response(r).status = 200

\* C8: when the engine returns a result within the contract, the answer is 200
\* with success true, the message "Extraction completed successfully", result.text
\* the engine's text, and the records in the engine's order with its
\* extraction_class, extraction_text and attributes; a char_interval that is
\* present and not None is rendered as exactly {start_pos, end_pos} with the
\* engine's values.
C8_SuccessResponse ==
    \A r \in Requests :
        ReturnedInContract(r) =>
            LET x == outcome[r].value
                b == Response(r).body.v
            IN /\ Len(sent[r]) = 1
               /\ Response(r).status = 200
               /\ DOMAIN b = {"success", "result", "message"}
               /\ b["success"] = PyBool(TRUE)
               /\ b["message"] = PyStr("Extraction completed successfully")
               /\ b["result"].v["text"] = x.v["text"]
               /\ Len(b["result"].v["extractions"].v) = Len(x.v["extractions"].v)
               /\ \A i \in DOMAIN x.v["extractions"].v :
                     LET rec == b["result"].v["extractions"].v[i].v
                         e == x.v["extractions"].v[i].v
                     IN /\ rec["extraction_class"] = e["extraction_class"]
                        /\ rec["extraction_text"] = e["extraction_text"]
                        /\ rec["attributes"] = e["attributes"]
                        /\ ("char_interval" \in DOMAIN e /\ e["char_interval"] # None) =>
                              /\ rec["char_interval"].t = "dict"
                              /\ DOMAIN rec["char_interval"].v = {"start_pos", "end_pos"}
                              /\ rec["char_interval"].v["start_pos"]
                                    = e["char_interval"].v["start_pos"]
                              /\ rec["char_interval"].v["end_pos"]
                                    = e["char_interval"].v["end_pos"]

\* C8 witness: a result of two different extractions, the second with a
\* char_interval of 8..12, was answered with them in that order.
C8_Witness ==
    \E r \in Requests :
        /\ ReturnedInContract(r)
        /\ Len(outcome[r].value.v["extractions"].v) = 2
        /\ outcome[r].value.v["extractions"].v[1].v["extraction_class"] = PyStr("place")
        /\ outcome[r].value.v["extractions"].v[2].v["extraction_class"] = PyStr("date")
        /\ "char_interval" \in DOMAIN outcome[r].value.v["extractions"].v[2].v
        /\ Response(r).body.v["result"].v["extractions"].v[2].v["char_interval"]
              = PyDict([start_pos |-> PyInt(8), end_pos |-> PyInt(12)])

\* The extraction records a response body carries (none without a result)
CarriedExtractions(b) ==
    IF "result" \in DOMAIN b.v /\ b.v["result"] # None
    THEN b.v["result"].v["extractions"].v ELSE <<>>

\* C7: an answer to POST /extract either is a 200 whose result has one record for
\* every extraction the engine returned, or has no result key and carries no
\* extraction at all; in particular when serialising a later extraction failed.
C7_AllOrNothing ==
    \A r \in Requests :
        (IsPost(r) /\ Answered(r)) =>
            \/ /\ Response(r).status = 200
               /\ outcome[r].kind = "returned"
               /\ Len(CarriedExtractions(Response(r).body))
                     = Len(outcome[r].value.v["extractions"].v)
            \/ /\ Response(r).status # 200
               /\ DOMAIN Response(r).body.v = {"detail"}
               /\ CarriedExtractions(Response(r).body) = <<>>

\* C7 witness: the engine returned two extractions, the first serialisable and
\* the second lacking extraction_text, and the answer is a 500 without result.
C7_Witness ==
    \E r \in Requests :
        /\ IsPost(r) /\ Answered(r) /\ outcome[r].kind = "returned"
        /\ outcome[r].value # None
        /\ "extractions" \in DOMAIN outcome[r].value.v
        /\ outcome[r].value.v["extractions"].t = "list"
        /\ Len(outcome[r].value.v["extractions"].v) = 2
        /\ SerializeExtraction(outcome[r].value.v["extractions"].v[1]).ok
        /\ "extraction_text" \notin DOMAIN outcome[r].value.v["extractions"].v[2].v
        /\ Response(r).status = 500
        /\ "result" \notin DOMAIN Response(r).body.v

\* C1, as the specification states it: every answer to a well-formed POST
\* /extract is an envelope with success true and a result that is not null, or an
\* envelope with success false and a message that is not null; a result is
\* present only with success true.
C1_EnvelopeOnEveryOutcome ==
    \A r \in Requests :
        (IsPost(r) /\ Conforms(req[r].body) /\ Answered(r)) =>
            LET b == Response(r).body.v IN
            /\ "success" \in DOMAIN b
            /\ \/ /\ b["success"] = PyBool(TRUE)
                  /\ "result" \in DOMAIN b /\ b["result"] # None
               \/ /\ b["success"] = PyBool(FALSE)
                  /\ "message" \in DOMAIN b /\ b["message"] # None
            /\ ("result" \in DOMAIN b /\ b["result"] # None) => b["success"] = PyBool(TRUE)

\* C5, as the specification states it: when the engine call raised, or returned
\* a result that cannot be serialised, the answer is a 500 whose body has
\* success false and the message "Extraction failed: " followed by str(e).
C5_FailureEnvelope ==
    \A r \in Requests :
        (/\ IsPost(r) /\ Answered(r) /\ outcome[r] # NoOutcome
         /\ outcome[r].kind = "returned" => ~SerializeResult(outcome[r].value).ok) =>
            LET b == Response(r).body.v
                e == IF outcome[r].kind = "raised" THEN outcome[r].err
                     ELSE SerializeResult(outcome[r].value).err
            IN /\ Response(r).status = 500
               /\ "success" \in DOMAIN b /\ b["success"] = PyBool(FALSE)
               /\ "message" \in DOMAIN b
               /\ b["message"] = PyStr("Extraction failed: " \o e)

\* The answers of section 8's two scenarios, written out
ScenarioSuccess ==
    [status |-> 200,
     body |-> PyDict(
        [success |-> PyBool(TRUE),
         result |-> PyDict(
            [text |-> PyStr("See you 6.6."),
             document_id |-> None,
             extractions |-> PyList(<<PyDict(
                [extraction_class |-> PyStr("date"), extraction_text |-> PyStr("6.6."),
                 attributes |-> PyDict(EmptyMap), char_interval |-> None,
                 alignment_status |-> None, extraction_index |-> None,
                 group_index |-> None, description |-> None])>>)]),
         message |-> PyStr("Extraction completed successfully")])]

ScenarioFailure ==
    [status |-> 500,
     body |-> PyDict([detail |-> PyStr("Extraction failed: model unavailable")])]

RequestFields(r) == <<pc[r], req[r], data[r], calls[r], outcome[r], sent[r]>>

\* C9: whatever else is in flight, (a) two answered requests with the same
\* request and the same engine outcome have the same answer, a request of
\* section 8's scenario has the scenario's answer, GET /schema and GET / have
\* their fixed answers; (b) every step changes the state of one request only and
\* leaves the process environment, the only state requests share, as it was.
C9_RequestsIndependent ==
    /\ [](\A r1, r2 \in Requests :
            /\ (Answered(r1) /\ Answered(r2) /\ req[r1] = req[r2]
                  /\ outcome[r1] = outcome[r2]) => sent[r1] = sent[r2]
            /\ (Answered(r1) /\ req[r1] = PostExtract(ScenarioBody)) =>
                  /\ outcome[r1] = Returned(ScenarioResult) => sent[r1] = <<ScenarioSuccess>>
                  /\ outcome[r1] = Raised("model unavailable") => sent[r1] = <<ScenarioFailure>>
            /\ (Answered(r1) /\ req[r1] = GetSchemaRequest) => sent[r1] = <<SchemaResponse>>
            /\ (Answered(r1) /\ req[r1] = GetRootRequest) => sent[r1] = <<RootResponse>>)
    /\ [][/\ environ' = environ
          /\ \E r \in Requests :
                \A other \in Requests \ {r} : RequestFields(other)' = RequestFields(other)]_vars

\* C9 witness: two scenario requests were in flight together, the first answered
\* after its call raised while the second's call, made before that, later returned.
C9_Witness ==
    \E r1, r2 \in Requests :
        /\ r1 # r2
        /\ req[r1] = PostExtract(ScenarioBody) /\ req[r2] = PostExtract(ScenarioBody)
        /\ Answered(r1) /\ outcome[r1] = Raised("model unavailable")
        /\ Answered(r2) /\ outcome[r2] = Returned(ScenarioResult)
        /\ sent[r1] = <<ScenarioFailure>> /\ sent[r2] = <<ScenarioSuccess>>

\* C10: a validated POST /extract request has no answer while its engine call has
\* neither returned nor raised, never has more than one answer, and once the
\* call has returned or raised it is eventually answered exactly once.
C10_AnsweredOnlyAfterEngine ==
    /\ [](\A r \in Requests :
            /\ Len(sent[r]) <= 1
            /\ (IsPost(r) /\ data[r] # None /\ outcome[r] = NoOutcome) => sent[r] = <<>>)
    /\ \A r \in Requests : (outcome[r] # NoOutcome) ~> (Len(sent[r]) = 1 /\ Answered(r))

\* C10 witness: one request is still waiting in its engine call, unanswered,
\* while another, whose call raised, has its answer.
C10_Witness ==
    \E r1, r2 \in Requests :
        /\ pc[r1] = "calling" /\ sent[r1] = <<>> /\ Len(calls[r1]) = 1
        /\ Answered(r2) /\ outcome[r2].kind = "raised" /\ Len(sent[r2]) = 1

====
